---- MODULE Spec2Model ----
(***************************************************************************)
(* Model of the Mavic reddit scraper (src/src/reddit/scraper.go, json.go): *)
(* the metadata fetchers, the download queue, the semaphore-gated download *)
(* workers and the progress aggregator of Scraper.Start.                   *)
(* Strings are sequences of one-character strings.                         *)
(***************************************************************************)
EXTENDS Integers, Sequences, FiniteSets, TLC

\* ------------------------------------------------------------------------
\* Bounds of the model
\* ------------------------------------------------------------------------
MaxFeeds == 2
MaxConcurrent == 2
MaxImages == 3

\* ------------------------------------------------------------------------
\* Strings (package strings / path of the Go standard library)
\* ------------------------------------------------------------------------
\* an absent (nil) optional string of the listing schema
Nil == <<"<nil>">>

RECURSIVE SplitAcc(_, _, _)
SplitAcc(s, c, cur) ==
  IF s = <<>> THEN <<cur>>
  ELSE IF Head(s) = c THEN <<cur>> \o SplitAcc(Tail(s), c, <<>>)
  ELSE SplitAcc(Tail(s), c, Append(cur, Head(s)))

\* strings.Split(s, c) for a one-character separator
Split(s, c) == SplitAcc(s, c, <<>>)

Last(q) == q[Len(q)]

\* strings.Contains(s, sub)
Contains(s, sub) ==
  \E i \in 0..(Len(s) - Len(sub)) : SubSeq(s, i + 1, i + Len(sub)) = sub

\* strings.HasSuffix(s, suf)
HasSuffix(s, suf) ==
  /\ Len(s) >= Len(suf)
  /\ SubSeq(s, Len(s) - Len(suf) + 1, Len(s)) = suf

RECURSIVE TrimLeft(_)
TrimLeft(s) == IF s # <<>> /\ Head(s) = " " THEN TrimLeft(Tail(s)) ELSE s

RECURSIVE TrimRight(_)
TrimRight(s) ==
  IF s # <<>> /\ Last(s) = " " THEN TrimRight(SubSeq(s, 1, Len(s) - 1)) ELSE s

\* strings.TrimSpace(s)
TrimSpace(s) == TrimRight(TrimLeft(s))

\* index of the first occurrence of sub in s, 0 when there is none
IndexOf(s, sub) ==
  IF Contains(s, sub)
  THEN CHOOSE i \in 1..(Len(s) - Len(sub) + 1) :
         /\ SubSeq(s, i, i + Len(sub) - 1) = sub
         /\ \A j \in 1..(i - 1) : SubSeq(s, j, j + Len(sub) - 1) # sub
  ELSE 0

\* strings.Replace(s, old, "", 1): the first occurrence of old is removed
\* (an empty old matches at the start and removes nothing)
ReplaceFirstWithEmpty(s, old) ==
  IF old = <<>> \/ ~Contains(s, old) THEN s
  ELSE LET i == IndexOf(s, old)
       IN SubSeq(s, 1, i - 1) \o SubSeq(s, i + Len(old), Len(s))

RECURSIVE JoinSegs(_)
JoinSegs(segs) ==
  IF segs = <<>> THEN <<>>
  ELSE IF Len(segs) = 1 THEN segs[1]
  ELSE segs[1] \o <<"/">> \o JoinSegs(Tail(segs))

RECURSIVE DropEmptySegs(_)
DropEmptySegs(segs) ==
  IF segs = <<>> THEN <<>>
  ELSE IF segs[1] = <<>> \/ segs[1] = <<".">> THEN DropEmptySegs(Tail(segs))
  ELSE <<segs[1]>> \o DropEmptySegs(Tail(segs))

\* path.Clean(p) for paths without ".." elements: repeated and trailing
\* slashes and "." elements are removed, the empty path becomes "."
Clean(p) ==
  LET rooted == p # <<>> /\ Head(p) = "/"
      body == JoinSegs(DropEmptySegs(Split(p, "/")))
  IN IF rooted THEN <<"/">> \o body
     ELSE IF body = <<>> THEN <<".">> ELSE body

\* path.Join(a, b): empty elements are ignored, the result is cleaned
PathJoin(a, b) ==
  IF a = <<>> /\ b = <<>> THEN <<>>
  ELSE IF a = <<>> THEN Clean(b)
  ELSE IF b = <<>> THEN Clean(a)
  ELSE Clean(a \o <<"/">> \o b)

\* ------------------------------------------------------------------------
\* Listings and images (json.go)
\* ------------------------------------------------------------------------
Imgur == <<"i", "m", "g", "u", "r">>
ImageHint == <<"i", "m", "a", "g", "e">>

\* A Child of a listing: HasData is FALSE when Child.Data is nil; Rest says
\* whether Title, ID, Author, Permalink and Subreddit are all present.
NewChild(domain, hint, url, rest) ==
  [HasData |-> TRUE, Domain |-> domain, PostHint |-> hint, URL |-> url,
   Rest |-> rest]


\* Image: the zero value of the struct has every string empty
ZeroImage ==
  [imageId |-> <<>>, link |-> <<>>, subreddit |-> <<>>]

\* redditChildToImage: the image id is the part of the last URL segment
\* before its first "."
redditChildToImage(child) ==
  LET splitUrl == Split(child.URL, "/")
      imageId == Split(Last(splitUrl), ".")[1]
  IN [imageId |-> imageId, link |-> child.URL, subreddit |-> <<"r">>]

\* redditChildToImage dereferences every field of the child
ChildToImagePanics(child) ==
  child.URL = Nil \/ child.Domain = Nil \/ ~child.Rest

\* the filter condition of parseLinksFromListings on domain and post hint
MatchesHint(value) ==
  \/ value.Domain # Nil /\ Contains(value.Domain, Imgur)
  \/ value.PostHint # Nil /\ Contains(value.PostHint, ImageHint)

\* the first loop of parseLinksFromListings dereferences value.Data and,
\* for a matching child, value.Data.URL
FilterPanics(value) ==
  ~value.HasData \/ (MatchesHint(value) /\ value.URL = Nil)

IsDirectLink(value) ==
  MatchesHint(value) /\ Contains(Last(Split(value.URL, "/")), <<".">>)

RECURSIVE FilterChildren(_)
FilterChildren(children) ==
  IF children = <<>> THEN <<>>
  ELSE IF IsDirectLink(Head(children))
       THEN <<Head(children)>> \o FilterChildren(Tail(children))
       ELSE FilterChildren(Tail(children))

\* the second loop of parseLinksFromListings: returnableImages has one slot
\* per filtered child; a child with a blank image id leaves its slot at the
\* zero Image
ReturnableImage(v) ==
  LET image == redditChildToImage(v)
  IN IF TrimSpace(image.imageId) = <<>> THEN ZeroImage ELSE image

\* parseLinksFromListings(listings): panic is TRUE when the function
\* dereferences a nil pointer, images is the returned slice otherwise
parseLinksFromListings(listings) ==
  IF ~listings.HasData \/ Len(listings.Children) = 0
  THEN [panic |-> FALSE, images |-> <<>>]
  ELSE IF \E k \in 1..Len(listings.Children) :
            FilterPanics(listings.Children[k])
  THEN [panic |-> TRUE, images |-> <<>>]
  ELSE LET filteredList == FilterChildren(listings.Children)
       IN IF \E k \in 1..Len(filteredList) :
               ChildToImagePanics(filteredList[k])
          THEN [panic |-> TRUE, images |-> <<>>]
          ELSE [panic |-> FALSE,
                images |-> [k \in 1..Len(filteredList) |->
                              ReturnableImage(filteredList[k])]]

\* ------------------------------------------------------------------------
\* Inputs: command line options and feed responses
\* ------------------------------------------------------------------------
FrontPageName == <<"f", "r", "o", "n", "t", "p", "a", "g", "e">>

\* the name of the i-th subreddit of the command line: "a", "aa", ...
FeedName(i) == [j \in 1..i |-> "a"]
AllNames == {FeedName(i) : i \in 1..MaxFeeds} \cup {FrontPageName}

RECURSIVE SeqsUpTo(_, _)
SeqsUpTo(S, n) ==
  IF n = 0 THEN {<<>>}
  ELSE LET shorter == SeqsUpTo(S, n - 1)
       IN shorter \cup {Append(q, x) : q \in shorter, x \in S}

UrlImage == <<"h", "/", "a", ".", "j">>
UrlHidden == <<"h", "/", ".", "j">>
UrlGallery == <<"h", "/", "g">>
UrlGifv == <<"h", "/", "b", ".", "g", "i", "f", "v">>

\* a direct image link posted on imgur
ImageChild == NewChild(Imgur, Nil, UrlImage, TRUE)

\* the children a feed response is built from
Children ==
  {ImageChild,
   NewChild(Imgur, Nil, UrlHidden, TRUE),
   NewChild(Imgur, Nil, UrlGallery, TRUE),
   NewChild(<<"x">>, ImageHint, UrlGifv, TRUE),
   NewChild(Imgur, Nil, Nil, TRUE)}

\* a feed response: HasData is FALSE for a payload without "data" (also the
\* result of a malformed or empty payload, whose unmarshal error is ignored)
NoDataResponse == [HasData |-> FALSE, Children |-> <<>>]

ResponsesOf(children) ==
  {NoDataResponse}
    \cup {[HasData |-> TRUE, Children |-> c] :
            c \in SeqsUpTo(children, MaxImages)}

\* the responses of the feeds of a run with several feeds
ImageResponses == ResponsesOf({ImageChild}) \ {NoDataResponse}

\* the responses of the feed of a run with one feed
FeedResponses == ResponsesOf(Children)

\* the sequences of n responses with budget entries at most in all
RECURSIVE ContentsOf(_, _, _)
ContentsOf(responses, n, budget) ==
  IF n = 0 THEN {<<>>}
  ELSE UNION {{<<r>> \o rest :
                 rest \in ContentsOf(responses, n - 1,
                                     budget - Len(r.Children))} :
              r \in {x \in responses : Len(x.Children) <= budget}}

\* the feeds behind the fetchers in use, none behind the others
Served(content) ==
  [f \in 1..MaxFeeds |->
     IF f <= Len(content) THEN content[f] ELSE NoDataResponse]

\* the feeds are interchangeable: the longer listings come first
LongestFirst(content) ==
  \A f \in 1..(Len(content) - 1) :
    Len(content[f].Children) >= Len(content[f + 1].Children)

\* the numbers of NewScraper: the enforced maximum of the limit, the upper
\* bound of its range check and the limit that check falls back to
MaxLimit == 100
UpperLimit == 500
DefaultLimit == 50

\* the feed lists of the command line: the subreddits "a", "aa", ..., and
\* a list that names the subreddit "a" twice
FeedLists ==
  {[i \in 1..n |-> FeedName(i)] : n \in 0..MaxFeeds}
    \cup {<<FeedName(1), FeedName(1)>>}

\* the options of a run over several subreddits
Options ==
  {[Subreddits |-> subs, FrontPage |-> FALSE,
    RootFolderOnly |-> FALSE, MaxConcurrentDownloads |-> c,
    OutputDirectory |-> <<"o">>, ImageLimit |-> DefaultLimit] :
     subs \in FeedLists, c \in 1..MaxConcurrent}

\* the options of a run over one feed: a subreddit or the front page
\* into the directory "o", or over the subreddit "a" into the directory
\* "ab", whose name contains the name of the subreddit
OneFeedOptions ==
  {[Subreddits |-> subs, FrontPage |-> fp, RootFolderOnly |-> root,
    MaxConcurrentDownloads |-> 1, OutputDirectory |-> <<"o">>,
    ImageLimit |-> DefaultLimit] :
     subs \in {<<>>, <<FeedName(1)>>}, fp \in BOOLEAN, root \in BOOLEAN}
    \cup
  {[Subreddits |-> <<FeedName(1)>>, FrontPage |-> FALSE,
    RootFolderOnly |-> root, MaxConcurrentDownloads |-> 1,
    OutputDirectory |-> <<"a", "b">>, ImageLimit |-> DefaultLimit] :
     root \in BOOLEAN}

\* how far the requested limits reach beyond 0 and UpperLimit
LimitSlack == 3

\* the limits requested on the command line
Limits == (0 - LimitSlack)..(UpperLimit + LimitSlack)

\* the options of a run that only constructs the scraper
LimitOptions ==
  {[Subreddits |-> <<>>, FrontPage |-> FALSE, RootFolderOnly |-> FALSE,
    MaxConcurrentDownloads |-> 1, OutputDirectory |-> <<"o">>,
    ImageLimit |-> limit] : limit \in Limits}

\* the zero value of Options, the scrapingOptions of a Scraper literal that
\* does not name the field
ZeroOptions ==
  [Subreddits |-> <<>>, FrontPage |-> FALSE, RootFolderOnly |-> FALSE,
   MaxConcurrentDownloads |-> 0, OutputDirectory |-> <<>>, ImageLimit |-> 0]

\* NewScraper: a limit above MaxLimit is lowered to it in options; the range
\* check writes DefaultLimit into redditScraper.scrapingOptions; the front
\* page is one more feed named "frontpage"; then redditScraper.scrapingOptions
\* is assigned options as a whole
NewScraper(options) ==
  LET enforced ==
        IF options.ImageLimit > MaxLimit
        THEN [options EXCEPT !.ImageLimit = MaxLimit]
        ELSE options
      redditScraper ==
        IF enforced.ImageLimit <= 0 \/ enforced.ImageLimit > UpperLimit
        THEN [scrapingOptions |->
                [ZeroOptions EXCEPT !.ImageLimit = DefaultLimit]]
        ELSE [scrapingOptions |-> ZeroOptions]
      withFrontPage ==
        IF enforced.FrontPage
        THEN [enforced EXCEPT
                !.Subreddits = Append(enforced.Subreddits, FrontPageName)]
        ELSE enforced
  IN [redditScraper EXCEPT !.scrapingOptions = withFrontPage].scrapingOptions

\* ------------------------------------------------------------------------
\* State
\* ------------------------------------------------------------------------
VARIABLES
  scrapingOptions,     \* Scraper.scrapingOptions
  reddit,              \* what the feed of each fetcher serves
  existing,            \* the paths that existed when the run started
  uniqueImageIds,      \* Scraper.uniqueImageIds: feed name -> set of ids
  metadataMutex,       \* 0 when free, else the fetcher holding it
  files,               \* the paths that exist in the file system
  progressMax,         \* progressBar's max: the scheduled total
  downloaded, skipped, failed,   \* the counters of Start
  startPc,             \* position of Start (the aggregator)
  summary,             \* the final summary, once emitted
  metaPc,              \* position of downloadRedditMetadata
  downloadWaitGroup,   \* its WaitGroup counter
  fetchers,            \* downloadMetadata goroutines, by feed index
  downloadImageChannelClosed,
  imagesPc, imagesImg, \* downloadImages: position, the dequeued image
  waitGroup, sem,      \* its WaitGroup counter, held semaphore units
  workers,             \* the download goroutines, by candidate
  downloadedMessagePumpChannelClosed,
  messages,            \* history: per candidate, the messages sent for it
  received,            \* history: per state, the messages Start received
  requests,            \* history: the http.Get calls, by candidate and link
  crashed              \* the process has died (panic or log.Fatal)

vars ==
  <<scrapingOptions, reddit, existing, uniqueImageIds, metadataMutex, files, progressMax,
    downloaded, skipped, failed, startPc, summary, metaPc,
    downloadWaitGroup, fetchers, downloadImageChannelClosed, imagesPc,
    imagesImg, waitGroup, sem, workers, downloadedMessagePumpChannelClosed,
    messages, received, requests, crashed>>

DOWNLOADING == "DOWNLOADING"
SUCCESS == "SUCCESS"
SKIPPED == "SKIPPED"
FAILED == "FAILED"

Subs == scrapingOptions.Subreddits
NumFeeds == Len(Subs)
FeedIds == 1..NumFeeds

\* a candidate is identified by its fetcher and its position in the links
Candidates == (1..MaxFeeds) \X (1..MaxImages)

NoImage == [cid |-> <<0, 0>>, image |-> ZeroImage]

\* started counts the goroutines started for the candidate
IdleWorker == [image |-> ZeroImage, pc |-> "idle", started |-> 0]

IdleFetcher == [pc |-> "idle", links |-> <<>>, k |-> 1, max |-> 0]

RECURSIVE Prefixes(_)
Prefixes(segs) ==
  IF segs = <<>> THEN {}
  ELSE {JoinSegs(segs)} \cup Prefixes(SubSeq(segs, 1, Len(segs) - 1))

\* os.MkdirAll(dir): the directory and its missing ancestors exist afterwards
MkdirAll(dir) == Prefixes(Split(Clean(dir), "/")) \ {<<>>}

\* the directory downloadMetadata makes sure to exist
FeedDir(sub) ==
  IF scrapingOptions.RootFolderOnly THEN scrapingOptions.OutputDirectory
  ELSE PathJoin(scrapingOptions.OutputDirectory, sub)

Gifv == <<"g", "i", "f", "v">>
Mp4 == <<"m", "p", "4">>

\* a downloadImage that leaves the link as it is
KeepLink(link) == link

\* the link with a "gifv" suffix replaced by "mp4"
RewriteLink(link) ==
  IF HasSuffix(link, Gifv) THEN SubSeq(link, 1, Len(link) - 4) \o Mp4
  ELSE link

\* outDir as downloadImage uses it
OutDir(img) ==
  LET outDir == PathJoin(scrapingOptions.OutputDirectory, img.subreddit)
  IN IF scrapingOptions.RootFolderOnly
     THEN ReplaceFirstWithEmpty(outDir, img.subreddit)
     ELSE outDir

\* imagePath := path.Join(outDir, imageId)
ImagePath(img) ==
  PathJoin(OutDir(img), Last(Split(RewriteLink(img.link), "/")))

\* the directory a path lies in
Parent(p) ==
  LET segs == Split(p, "/")
  IN JoinSegs(SubSeq(segs, 1, Len(segs) - 1))

\* the elements of a sequence
Range(q) == {q[i] : i \in 1..Len(q)}

\* the paths a finished run leaves behind: the directory of every feed and
\* the imagePath downloadImage computes for every image of its listing
Populated(content) ==
  UNION {MkdirAll(FeedDir(Subs[f]))
           \cup {ImagePath([img EXCEPT !.subreddit = Subs[f]]) :
                   img \in Range(parseLinksFromListings(content[f]).images)} :
         f \in FeedIds}

\* progressbar.NewOptions(1, ...)
InitialMax == 1

\* the fields of a new Scraper and the state of the run around it
Fresh(content, populated) ==
  /\ reddit = content
  /\ existing = IF populated THEN Populated(content) ELSE {}
  /\ uniqueImageIds = [n \in AllNames |-> [present |-> FALSE, ids |-> {}]]
  /\ metadataMutex = 0
  /\ files = existing
  /\ progressMax = InitialMax
  /\ downloaded = 0
  /\ skipped = 0
  /\ failed = 0
  /\ summary = <<>>
  /\ metaPc = "range"
  /\ downloadWaitGroup = 0
  /\ fetchers = [f \in 1..MaxFeeds |-> IdleFetcher]
  /\ downloadImageChannelClosed = FALSE
  /\ imagesPc = "range"
  /\ imagesImg = NoImage
  /\ waitGroup = 0
  /\ sem = 0
  /\ workers = [c \in Candidates |-> IdleWorker]
  /\ downloadedMessagePumpChannelClosed = FALSE
  /\ messages = [c \in Candidates |-> [pending |-> 0, terminal |-> 0]]
  /\ received = [state \in {DOWNLOADING, SUCCESS, SKIPPED, FAILED} |-> 0]
  /\ requests = {}
  /\ crashed = FALSE

\* the state when Start has started its two goroutines
Started(options, content, populated) ==
  /\ scrapingOptions = NewScraper(options)
  /\ startPc = "range"
  /\ Fresh(content, populated)

Init ==
  \E o \in Options :
    \E content \in ContentsOf(ImageResponses, Len(o.Subreddits), MaxImages) :
      LongestFirst(content) /\ Started(o, Served(content), FALSE)

InitOneFeed ==
  \E o \in OneFeedOptions :
    \E content \in ContentsOf(FeedResponses, 1, MaxImages) :
      \E populated \in BOOLEAN : Started(o, Served(content), populated)

\* ------------------------------------------------------------------------
\* downloadRedditMetadata
\* ------------------------------------------------------------------------
\* a Wait() that does not wait for the fetchers
MetadataWaitSkipped == TRUE

\* downloadWaitGroup.Wait() returns
MetadataWaitReturns == downloadWaitGroup = 0

\* the loop over the feeds: Add(1) and go downloadMetadata for each feed
\* (a goroutine that was started takes its first step whenever it is
\* scheduled, so the iterations are taken as one step)
SpawnFetchers ==
  /\ ~crashed
  /\ metaPc = "range"
  /\ downloadWaitGroup' = downloadWaitGroup + NumFeeds
  /\ fetchers' = [f \in 1..MaxFeeds |->
                   IF f \in FeedIds THEN [fetchers[f] EXCEPT !.pc = "lock"]
                   ELSE fetchers[f]]
  /\ metaPc' = "wait"
  /\ UNCHANGED <<scrapingOptions, reddit, existing, uniqueImageIds, metadataMutex,
                 files,
                 progressMax, downloaded, skipped, failed, startPc, summary,
                 downloadImageChannelClosed, imagesPc, imagesImg,
                 waitGroup, sem, workers, downloadedMessagePumpChannelClosed,
                 messages, received, requests, crashed>>

\* after the loop: Wait() and close(s.downloadImageChannel)
CloseDownloadImageChannel ==
  /\ ~crashed
  /\ metaPc = "wait"
  /\ MetadataWaitReturns
  /\ downloadImageChannelClosed' = TRUE
  /\ metaPc' = "done"
  /\ UNCHANGED <<scrapingOptions, reddit, existing, uniqueImageIds, metadataMutex,
                 files,
                 progressMax, downloaded, skipped, failed, startPc, summary,
                 downloadWaitGroup, fetchers, imagesPc, imagesImg,
                 waitGroup, sem, workers, downloadedMessagePumpChannelClosed,
                 messages, received, requests, crashed>>

\* ------------------------------------------------------------------------
\* downloadMetadata(sub, group), one goroutine per entry of the feed list
\* ------------------------------------------------------------------------
Sub(f) == Subs[f]

FetcherVarsUnchanged ==
  UNCHANGED <<scrapingOptions, reddit, existing, downloaded, skipped, failed, startPc,
              summary,
              metaPc, downloadImageChannelClosed, imagesPc, imagesImg,
              waitGroup, sem, workers, downloadedMessagePumpChannelClosed,
              messages, received, requests>>

\* metadataMutex.Lock()
Lock(f) ==
  /\ ~crashed
  /\ fetchers[f].pc = "lock"
  /\ metadataMutex = 0
  /\ metadataMutex' = f
  /\ fetchers' = [fetchers EXCEPT ![f].pc = "create"]
  /\ UNCHANGED <<uniqueImageIds, files, progressMax, downloadWaitGroup,
                 crashed>>
  /\ FetcherVarsUnchanged

\* the map of sets after "if _, ok := s.uniqueImageIds[sub]; !ok { ... }"
CreateSet(sub) ==
  IF uniqueImageIds[sub].present THEN uniqueImageIds
  ELSE [uniqueImageIds EXCEPT ![sub] = [present |-> TRUE, ids |-> {}]]

\* with the mutex held: the set of the feed is created when it is missing,
\* metadataMutex.Unlock(); then gatherRedditFeed answers,
\* parseLinksFromListings, Stat and MkdirAll, up to and including
\* progressBar.GetMax(), the read of the scheduled total
Gather(f) ==
  /\ ~crashed
  /\ fetchers[f].pc = "create"
  /\ uniqueImageIds' = CreateSet(Sub(f))
  /\ metadataMutex' = 0
  /\ \E parsed \in {parseLinksFromListings(reddit[f])} :
       IF parsed.panic
       THEN /\ crashed' = TRUE
            /\ fetchers' = [fetchers EXCEPT ![f].pc = "nilpanic"]
            /\ UNCHANGED files
       ELSE /\ fetchers' = [fetchers EXCEPT ![f].pc = "changeMax",
                                            ![f].links = parsed.images,
                                            ![f].max = progressMax]
            /\ \E dir \in {FeedDir(Sub(f))} :
                 files' = files \cup MkdirAll(dir)
            /\ UNCHANGED crashed
  /\ UNCHANGED <<progressMax, downloadWaitGroup>>
  /\ FetcherVarsUnchanged

\* gatherRedditFeed: client.Do fails and log.Panic ends the process
GatherNetworkError(f) ==
  /\ ~crashed
  /\ fetchers[f].pc = "create"
  /\ uniqueImageIds' = CreateSet(Sub(f))
  /\ metadataMutex' = 0
  /\ crashed' = TRUE
  /\ fetchers' = [fetchers EXCEPT ![f].pc = "netpanic"]
  /\ UNCHANGED <<files, progressMax, downloadWaitGroup>>
  /\ FetcherVarsUnchanged

\* the position of downloadMetadata at the head of its loop over the links,
\* about to handle links[k]: it returns after the last one
LoopHead(f, k) == IF k > Len(fetchers[f].links) THEN "done" ELSE "insert"

\* defer group.Done() runs when downloadMetadata returns
DoneOnReturn(pc) ==
  IF pc = "done" THEN downloadWaitGroup - 1 ELSE downloadWaitGroup

\* progressBar.ChangeMax(<the value read> + len(links))
ChangeMax(f) ==
  /\ ~crashed
  /\ fetchers[f].pc = "changeMax"
  /\ progressMax' = fetchers[f].max + Len(fetchers[f].links)
  /\ fetchers' = [fetchers EXCEPT ![f].pc = LoopHead(f, 1), ![f].max = 0]
  /\ downloadWaitGroup' = DoneOnReturn(LoopHead(f, 1))
  /\ UNCHANGED <<uniqueImageIds, metadataMutex, files, crashed>>
  /\ FetcherVarsUnchanged

\* the image of the current loop iteration, its subreddit reassigned
CurrentImage(f) ==
  [fetchers[f].links[fetchers[f].k] EXCEPT !.subreddit = Sub(f)]

\* the insert of downloadMetadata holds no lock: it races with another
\* fetcher that is about to create its set in the map of sets, and with
\* another fetcher of the same feed name that is about to insert too
MapRace(f) ==
  \E g \in FeedIds \ {f} :
    \/ fetchers[g].pc = "create" /\ ~uniqueImageIds[Sub(g)].present
    \/ fetchers[g].pc = "insert" /\ Sub(g) = Sub(f)

\* s.uniqueImageIds[sub][image.imageId] = true; in a race the runtime may
\* end the process (concurrent map access)
Insert(f) ==
  /\ ~crashed
  /\ fetchers[f].pc = "insert"
  /\ \E fatal \in BOOLEAN :
       /\ fatal => MapRace(f)
       /\ crashed' = fatal
       /\ uniqueImageIds' =
            [uniqueImageIds EXCEPT
               ![Sub(f)].ids = @ \cup {CurrentImage(f).imageId}]
       /\ fetchers' =
            [fetchers EXCEPT ![f].pc = IF fatal THEN "mappanic" ELSE "send"]
  /\ UNCHANGED <<metadataMutex, files, progressMax, downloadWaitGroup>>
  /\ FetcherVarsUnchanged

\* ------------------------------------------------------------------------
\* downloadImages
\* ------------------------------------------------------------------------
\* a semaphore that admits one goroutine more than its weight
SemAcquirableOffByOne == sem <= scrapingOptions.MaxConcurrentDownloads

\* sem.Acquire(ctx, 1) can take a unit
SemAcquirable == sem < scrapingOptions.MaxConcurrentDownloads

\* a Wait() that does not wait for the workers
ImagesWaitSkipped == TRUE

\* waitGroup.Wait() returns
ImagesWaitReturns == waitGroup = 0

\* the index of the next loop iteration of downloadMetadata
NextIndex(k) == k + 1

\* a loop that sends its first image in every iteration
SentFirst(f) ==
  [cid |-> <<f, 1>>,
   image |-> [fetchers[f].links[1] EXCEPT !.subreddit = Sub(f)]]

\* the value downloadMetadata sends in its current iteration
Sent(f) == [cid |-> <<f, fetchers[f].k>>, image |-> CurrentImage(f)]

\* s.downloadImageChannel <- image meets the range of downloadImages (the
\* channel is unbuffered); downloadImages then calls waitGroup.Add(1)
Receive(f) ==
  /\ ~crashed
  /\ fetchers[f].pc = "send"
  /\ imagesPc = "range"
  /\ ~downloadImageChannelClosed
  /\ imagesImg' = Sent(f)
  /\ waitGroup' = waitGroup + 1
  /\ imagesPc' = "acquire"
  /\ fetchers' = [fetchers EXCEPT
                    ![f].k = NextIndex(fetchers[f].k),
                    ![f].pc = LoopHead(f, NextIndex(fetchers[f].k))]
  /\ downloadWaitGroup' = DoneOnReturn(LoopHead(f, NextIndex(fetchers[f].k)))
  /\ UNCHANGED <<scrapingOptions, reddit, existing, uniqueImageIds, metadataMutex,
                 files,
                 progressMax, downloaded, skipped, failed, startPc, summary,
                 metaPc,
                 downloadImageChannelClosed, sem, workers,
                 downloadedMessagePumpChannelClosed, messages, received, requests, crashed>>

\* the goroutine started for a dequeued image gets the image as argument
NewWorker(img) ==
  [image |-> img.image, pc |-> "pending",
   started |-> workers[img.cid].started + 1]

\* sem.Acquire(ctx, 1) and go func(img Image)
Acquire ==
  /\ ~crashed
  /\ imagesPc = "acquire"
  /\ SemAcquirable
  /\ sem' = sem + 1
  /\ workers' = [workers EXCEPT ![imagesImg.cid] = NewWorker(imagesImg)]
  /\ imagesImg' = NoImage
  /\ imagesPc' = "range"
  /\ UNCHANGED <<scrapingOptions, reddit, existing, uniqueImageIds, metadataMutex,
                 files,
                 progressMax, downloaded, skipped, failed, startPc, summary,
                 metaPc, downloadWaitGroup, fetchers,
                 downloadImageChannelClosed, waitGroup,
                 downloadedMessagePumpChannelClosed, messages, received, requests, crashed>>

\* the range ends on the closed queue: waitGroup.Wait() and
\* close(s.downloadedMessagePumpChannel)
CloseMessagePump ==
  /\ ~crashed
  /\ imagesPc = "range"
  /\ downloadImageChannelClosed
  /\ ImagesWaitReturns
  /\ downloadedMessagePumpChannelClosed' = TRUE
  /\ imagesPc' = "done"
  /\ UNCHANGED <<scrapingOptions, reddit, existing, uniqueImageIds, metadataMutex,
                 files,
                 progressMax, downloaded, skipped, failed, startPc, summary,
                 metaPc, downloadWaitGroup, fetchers,
                 downloadImageChannelClosed, imagesImg, waitGroup, sem,
                 workers, messages, received, requests, crashed>>

\* ------------------------------------------------------------------------
\* downloadImage(outDir, img), run by each worker goroutine, and Start
\* ------------------------------------------------------------------------
WorkerIds == {c \in Candidates : workers[c].pc # "idle"}

WorkerVarsUnchanged ==
  UNCHANGED <<scrapingOptions, reddit, existing, uniqueImageIds, metadataMutex,
              progressMax,
              metaPc, downloadWaitGroup, fetchers,
              downloadImageChannelClosed, imagesPc, imagesImg,
              downloadedMessagePumpChannelClosed>>

\* a switch that counts every message, whatever its state
CountedAlways(counter, kind, state) == counter + 1

\* the counters of Start after a message in the given state
Counted(counter, kind, state) ==
  IF state = kind THEN counter + 1 ELSE counter

\* a send on s.downloadedMessagePumpChannel meets the range of Start, which
\* counts the message
SendState(w, state) ==
  /\ startPc = "range"
  /\ ~downloadedMessagePumpChannelClosed
  /\ messages' =
       IF state = DOWNLOADING
       THEN [messages EXCEPT ![w].pending = @ + 1]
       ELSE [messages EXCEPT ![w].terminal = @ + 1]
  /\ received' = [received EXCEPT ![state] = @ + 1]
  /\ downloaded' = Counted(downloaded, SUCCESS, state)
  /\ skipped' = Counted(skipped, SKIPPED, state)
  /\ failed' = Counted(failed, FAILED, state)

\* a Stat that finds no path
ExistsNever(path) == FALSE

\* os.Stat(imagePath) does not answer "not exist"
Exists(path) == path \in files

\* s.downloadedMessagePumpChannel <- updateState{img, DOWNLOADING}, then
\* os.Stat(imagePath): an existing path is skipped
SendDownloading(w) ==
  /\ ~crashed
  /\ workers[w].pc = "pending"
  /\ SendState(w, DOWNLOADING)
  /\ workers' =
       IF Exists(ImagePath(workers[w].image))
       THEN [workers EXCEPT ![w].pc = "skip"]
       ELSE [workers EXCEPT ![w].pc = "create"]
  /\ UNCHANGED <<files, requests, startPc, summary, waitGroup, sem, crashed>>
  /\ WorkerVarsUnchanged

\* a downloadImage whose SKIPPED branch lacks its return
AfterTerminalNoReturn(state) == IF state = SKIPPED THEN "create" ELSE "done"

\* the position of downloadImage after its terminal message: it returns
AfterTerminal(state) == "done"

\* a goroutine that keeps its unit when downloadImage has returned
NeverReleased(pc) == sem

\* the semaphore units held once a worker has come to the given position:
\* sem.Release(1) follows the return of downloadImage
Released(pc) == IF pc = "done" THEN sem - 1 ELSE sem

\* waitGroup.Done() follows sem.Release(1)
DoneAfter(pc) == IF pc = "done" THEN waitGroup - 1 ELSE waitGroup

\* s.downloadedMessagePumpChannel <- updateState{img, <terminal state>};
\* downloadImage returns, the goroutine releases its unit and calls
\* waitGroup.Done()
SendTerminal(w, state) ==
  /\ SendState(w, state)
  /\ workers' =
       [workers EXCEPT
          ![w] = IF AfterTerminal(state) = "done"
                 THEN [IdleWorker EXCEPT !.pc = "done",
                                         !.started = workers[w].started]
                 ELSE [@ EXCEPT !.pc = AfterTerminal(state)]]
  /\ sem' = Released(AfterTerminal(state))
  /\ waitGroup' = DoneAfter(AfterTerminal(state))

\* the path exists: SKIPPED is sent
Skip(w) ==
  /\ ~crashed
  /\ workers[w].pc = "skip"
  /\ SendTerminal(w, SKIPPED)
  /\ UNCHANGED <<files, requests, startPc, summary, crashed>>
  /\ WorkerVarsUnchanged

\* os.Create(imagePath) cannot succeed without the directory of the path
CreateMustFail(path) == Parent(path) \notin files

\* a downloadImage that reports FAILED for a failed os.Create only
OutcomeOfCreate(createErr, httpErr, ioErr) ==
  IF createErr THEN FAILED ELSE SUCCESS

\* the state downloadImage reports after os.Create, http.Get and io.Copy
Outcome(createErr, httpErr, ioErr) ==
  IF createErr \/ httpErr \/ ioErr THEN FAILED ELSE SUCCESS

\* http.Get(img.link), on the rewritten link, by the worker of candidate w
Get(w) == [cid |-> w, link |-> RewriteLink(workers[w].image.link)]

\* downloadImage from os.Create on, with the given errors: after a failed
\* os.Create it returns before http.Get; the file exists once it was
\* created, whatever http.Get and io.Copy return; then the terminal message
\* and the return (the deferred Close calls succeed)
DownloadWith(w, createErr, httpErr, ioErr) ==
  /\ ~crashed
  /\ workers[w].pc = "create"
  /\ \E imagePath \in {ImagePath(workers[w].image)} :
       /\ CreateMustFail(imagePath) => createErr
       /\ files' = IF createErr THEN files ELSE files \cup {imagePath}
  /\ requests' = IF createErr THEN requests ELSE requests \cup {Get(w)}
  /\ SendTerminal(w, Outcome(createErr, httpErr, ioErr))
  /\ UNCHANGED <<startPc, summary, crashed>>
  /\ WorkerVarsUnchanged

\* os.Create, http.Get and io.Copy: at most the first of them that is
\* reached fails
Download(w) ==
  \E createErr, httpErr, ioErr \in BOOLEAN :
    /\ createErr => ~httpErr /\ ~ioErr
    /\ httpErr => ~ioErr
    /\ DownloadWith(w, createErr, httpErr, ioErr)

\* as Download when os.Create succeeded, but a deferred Close fails after
\* the terminal message and log.Fatal ends the process
CloseFatal(w) ==
  /\ ~crashed
  /\ workers[w].pc = "create"
  /\ \E imagePath \in {ImagePath(workers[w].image)} :
       \E httpErr \in BOOLEAN :
          /\ ~CreateMustFail(imagePath)
          /\ files' = files \cup {imagePath}
          /\ SendState(w, Outcome(FALSE, httpErr, FALSE))
  /\ requests' = requests \cup {Get(w)}
  /\ workers' = [workers EXCEPT ![w].pc = "fatal"]
  /\ crashed' = TRUE
  /\ UNCHANGED <<startPc, summary, waitGroup, sem>>
  /\ WorkerVarsUnchanged

\* Start: the range over the closed message channel ends, the final
\* summary is described and the progress bar finished
Finish ==
  /\ ~crashed
  /\ startPc = "range"
  /\ downloadedMessagePumpChannelClosed
  /\ summary' = <<[scheduled |-> progressMax, downloaded |-> downloaded,
                   skipped |-> skipped, failed |-> failed]>>
  /\ startPc' = "done"
  /\ UNCHANGED <<scrapingOptions, reddit, existing, uniqueImageIds, metadataMutex,
                 files,
                 progressMax, downloaded, skipped, failed, metaPc,
                 downloadWaitGroup, fetchers, downloadImageChannelClosed,
                 imagesPc, imagesImg, waitGroup, sem, workers,
                 downloadedMessagePumpChannelClosed, messages, received, requests, crashed>>

Next ==
  \/ SpawnFetchers
  \/ CloseDownloadImageChannel
  \/ \E f \in FeedIds : Lock(f)
  \/ \E f \in FeedIds : Gather(f)
  \/ \E f \in FeedIds : GatherNetworkError(f)
  \/ \E f \in FeedIds : ChangeMax(f)
  \/ \E f \in FeedIds : Insert(f)
  \/ \E f \in FeedIds : Receive(f)
  \/ Acquire
  \/ CloseMessagePump
  \/ \E w \in WorkerIds : SendDownloading(w)
  \/ \E w \in WorkerIds : Skip(w)
  \/ \E w \in WorkerIds : Download(w)
  \/ \E w \in WorkerIds : CloseFatal(w)
  \/ Finish

Spec == Init /\ [][Next]_vars

SpecOneFeed == InitOneFeed /\ [][Next]_vars

\* every goroutine that can take a step is scheduled eventually
FairSpec == Spec /\ WF_vars(Next)

\* the command line is parsed, the scraper not yet constructed
InitLimit ==
  \E o \in LimitOptions :
    /\ scrapingOptions = o
    /\ startPc = "new"
    /\ Fresh(Served(<<>>), FALSE)

\* reddit.NewScraper(options)
Construct ==
  /\ startPc = "new"
  /\ scrapingOptions' = NewScraper(scrapingOptions)
  /\ startPc' = "range"
  /\ UNCHANGED <<reddit, existing, uniqueImageIds, metadataMutex, files,
                 progressMax, downloaded, skipped, failed, summary, metaPc,
                 downloadWaitGroup, fetchers, downloadImageChannelClosed,
                 imagesPc, imagesImg, waitGroup, sem, workers,
                 downloadedMessagePumpChannelClosed, messages, received,
                 requests, crashed>>

NextLimit == Construct

SpecLimit == InitLimit /\ [][NextLimit]_vars

\* the limit determineRedditUrl puts into the feed request
RequestLimit == scrapingOptions.ImageLimit

\* ------------------------------------------------------------------------
\* Properties
\* ------------------------------------------------------------------------
\* the candidates whose goroutine is inside downloadImage
Running == {c \in Candidates : workers[c].pc \in {"pending", "create", "skip"}}

\* the candidates their fetcher has sent on the download queue
Entered(c) == c[1] \in FeedIds /\ c[2] < fetchers[c[1]].k

\* the candidates downloadImages has taken from the download queue
Dequeued(c) == workers[c].started > 0 \/ imagesImg.cid = c

Terminals == downloaded + skipped + failed

\* C1: at most MaxConcurrentDownloads goroutines are inside downloadImage at
\* once, whatever feeds their images come from
C1_BoundedWorkers ==
  Cardinality(Running) <= scrapingOptions.MaxConcurrentDownloads

\* the bound is reached by workers of two feeds while downloadImages waits
\* for a unit with one more image in hand
C1_Witness ==
  /\ Cardinality(Running) = scrapingOptions.MaxConcurrentDownloads
  /\ \E c, d \in Running : c[1] # d[1]
  /\ imagesPc = "acquire"

\* C2: once the message channel is closed no worker is left that could send
\* on it, and every dequeued candidate has its terminal message
C2_CloseAfterWorkers ==
  downloadedMessagePumpChannelClosed =>
    /\ Running = {}
    /\ \A c \in Candidates : Dequeued(c) => messages[c].terminal >= 1

C2_Witness ==
  /\ downloadedMessagePumpChannelClosed
  /\ \E c, d \in Candidates :
       c # d /\ messages[c].terminal = 1 /\ messages[d].terminal = 1

\* C3: once the download queue is closed every fetcher has returned, so
\* none can send on it
C3_CloseAfterFetchers ==
  downloadImageChannelClosed =>
    \A f \in FeedIds : fetchers[f].pc = "done"

C3_Witness ==
  /\ downloadImageChannelClosed
  /\ NumFeeds = MaxFeeds
  /\ \A f \in FeedIds : fetchers[f].k > 1

\* C4: a candidate gets at most one DOWNLOADING and at most one terminal
\* message, the DOWNLOADING one first and nothing after the terminal one;
\* a candidate that has not entered the queue gets none, and once its worker
\* has returned, and at the end of the run, it has exactly one terminal one
C4_OneTerminal ==
  \A c \in Candidates :
    /\ messages[c].pending <= 1
    /\ messages[c].terminal <= messages[c].pending
    /\ ~Entered(c) => messages[c].pending = 0
    /\ workers[c].pc = "pending" => messages[c].pending = 0
    /\ workers[c].pc \in {"create", "skip"} => messages[c].terminal = 0
    /\ workers[c].pc = "done" => messages[c].terminal = 1
    /\ (startPc = "done" /\ Entered(c)) => messages[c].terminal = 1

\* a run that ended after a skipped and a downloaded or failed candidate
C4_Witness ==
  /\ startPc = "done"
  /\ skipped > 0
  /\ downloaded + failed > 0
  /\ \E c \in Candidates : Entered(c) /\ messages[c].terminal = 1

\* C5: a candidate that entered the queue is either in the hand of
\* downloadImages or was given to exactly one goroutine, a candidate that did
\* not enter it is in neither, and the final summary comes after the
\* terminal message of every candidate that entered the queue
C5_ConsumedOnce ==
  \A c \in Candidates :
    /\ Entered(c) =>
         \/ workers[c].started = 1 /\ imagesImg.cid # c
         \/ workers[c].started = 0 /\ imagesImg.cid = c
    /\ ~Entered(c) => ~Dequeued(c)
    /\ (summary # <<>> /\ Entered(c)) => messages[c].terminal = 1

C5_Witness ==
  /\ summary # <<>>
  /\ \E c, d \in Candidates :
       /\ c # d /\ c[1] = d[1]
       /\ Entered(c) /\ Entered(d)
       /\ workers[c].started = 1 /\ workers[d].started = 1

\* C6: the terminal messages counted never exceed the scheduled total
C6_TerminalsWithinScheduled == Terminals <= progressMax

\* C7: when the run has ended the scheduled total of the final summary equals
\* the number of terminal messages counted
C7_ScheduledConverges ==
  startPc = "done" =>
    summary[1].scheduled =
      summary[1].downloaded + summary[1].skipped + summary[1].failed

\* C8: no step lowers any of the four progress totals
C8_Monotonic ==
  [][/\ progressMax' >= progressMax
     /\ downloaded' >= downloaded
     /\ skipped' >= skipped
     /\ failed' >= failed]_vars

\* C9: the candidates one fetcher has sent on the download queue have
\* pairwise different image ids
C9_NoDuplicateInFeed ==
  \A f \in FeedIds :
    \A i, j \in 1..(fetchers[f].k - 1) :
      i # j => fetchers[f].links[i].imageId # fetchers[f].links[j].imageId

\* C10: no image with an empty image id is counted in the scheduled total
\* or sent on the download queue
C10_NoEmptyImageId ==
  \A f \in FeedIds :
    fetchers[f].pc \in {"insert", "send", "done"} =>
      \A i \in 1..Len(fetchers[f].links) :
        fetchers[f].links[i].imageId # <<>>

\* C11: every candidate sent on the download queue has a link whose last
\* path segment contains a "."
C11_DirectLinksOnly ==
  \A f \in FeedIds :
    \A i \in 1..(fetchers[f].k - 1) :
      Contains(Last(Split(fetchers[f].links[i].link, "/")), <<".">>)

\* C12: after a network error of one feed the run still goes on to its
\* final summary
C12_NetworkErrorIsolated ==
  (\E f \in FeedIds : fetchers[f].pc = "netpanic") ~> (startPc = "done")

\* C13: a feed whose payload has no data, or whose listing lacks a field,
\* gets past its parse with no candidates, and the parse does not end the
\* process
C13_AbsentFieldsTolerated ==
  \A f \in FeedIds :
    LET listings == reddit[f]
        absent ==
          \/ ~listings.HasData
          \/ \E k \in 1..Len(listings.Children) :
               \/ ~listings.Children[k].HasData
               \/ listings.Children[k].URL = Nil
               \/ listings.Children[k].Domain = Nil
               \/ ~listings.Children[k].Rest
    IN (absent /\ fetchers[f].pc \notin {"idle", "lock", "create"}) =>
         /\ fetchers[f].pc # "nilpanic"
         /\ fetchers[f].links = <<>>

\* the run started on a directory that holds every path it will look for
RunOnPopulated == Populated(reddit) \subseteq existing

C15_Terminates ==
  <>(/\ startPc = "done"
     /\ summary # <<>>
     /\ downloadImageChannelClosed
     /\ downloadedMessagePumpChannelClosed
     /\ \A f \in FeedIds : fetchers[f].pc = "done"
     /\ Running = {})

\* the fetchers that have written the set of the feed named n
Writers(n) ==
  {f \in FeedIds :
     /\ Sub(f) = n
     /\ fetchers[f].pc \in {"send", "mappanic"} \/ fetchers[f].k > 1}

\* C16: the set of a feed is written by one fetcher at most
C16_SingleWriter ==
  \A n \in AllNames : Cardinality(Writers(n)) <= 1

\* the candidates whose goroutine has not returned
InFlight ==
  {c \in Candidates : workers[c].pc \in {"pending", "create", "skip", "fatal"}}

\* C17: the units held are those of the goroutines in flight, and none is
\* held once the workers have finished
C17_UnitsReleased ==
  /\ sem = Cardinality(InFlight)
  /\ downloadedMessagePumpChannelClosed => sem = 0

\* every unit is back after a success, a skip and a failure
C17_Witness ==
  /\ downloadedMessagePumpChannelClosed
  /\ sem = 0
  /\ downloaded > 0 /\ skipped > 0 /\ failed > 0

\* C18: each counter of Start is the number of messages of its state
\* received so far; DOWNLOADING messages are counted nowhere
C18_CountersMatchMessages ==
  /\ downloaded = received[SUCCESS]
  /\ skipped = received[SKIPPED]
  /\ failed = received[FAILED]

\* a success and a skip were counted while one DOWNLOADING message is still
\* without its terminal message
C18_Witness ==
  /\ received[SUCCESS] > 0 /\ received[SKIPPED] > 0
  /\ received[DOWNLOADING] > downloaded + skipped + failed
  /\ startPc = "range"

\* C19: a step that changes one of the four totals is a step of Start (it
\* receives a message or leaves its loop)
C19_SingleWriterTotals ==
  [][(\/ progressMax' # progressMax
      \/ downloaded' # downloaded
      \/ skipped' # skipped
      \/ failed' # failed)
       => (received' # received \/ startPc' # startPc)]_vars

\* C20: the path a worker downloads to is <outputDir>/<feed>/<filename>,
\* and <outputDir>/<filename> when RootFolderOnly is set
C20_DestinationPath ==
  \A c \in Running :
    LET img == workers[c].image
        filename == Last(Split(RewriteLink(img.link), "/"))
        outputDir == scrapingOptions.OutputDirectory
    IN ImagePath(img) =
         IF scrapingOptions.RootFolderOnly
         THEN PathJoin(outputDir, filename)
         ELSE PathJoin(PathJoin(outputDir, img.subreddit), filename)

\* C21: a worker whose os.Create fails reports FAILED without a request; a
\* worker whose http.Get or io.Copy fails after the file was created reports
\* FAILED after its one request, the file stays, and the worker returns; no
\* step removes a file
C21_FailedDownload ==
  [][/\ files \subseteq files'
     /\ \A w \in Candidates :
          \A createErr, httpErr, ioErr \in BOOLEAN :
            DownloadWith(w, createErr, httpErr, ioErr) =>
              /\ createErr =>
                   /\ failed' = failed + 1
                   /\ requests' = requests
                   /\ files' = files
              /\ (~createErr /\ (httpErr \/ ioErr)) =>
                   /\ failed' = failed + 1
                   /\ downloaded' = downloaded
                   /\ ImagePath(workers[w].image) \in files'
                   /\ Get(w) \notin requests
                   /\ requests' = requests \cup {Get(w)}
                   /\ workers'[w].pc = "done"
                   /\ workers'[w].started = workers[w].started]_vars

\* two workers have failed, one without a request, one after its request,
\* whose file is in place
C21_Witness ==
  /\ failed = 2
  /\ downloaded = 0
  /\ skipped = 0
  /\ \E r \in requests :
       /\ requests = {r}
       /\ workers[r.cid].pc = "done"
       /\ \E p \in files : Last(Split(p, "/")) = Last(Split(r.link, "/"))

\* C22: the link a worker requests is the link of its candidate with a
\* "gifv" suffix replaced by "mp4", and the link itself otherwise; the file
\* created for it is named by the last segment of the requested link
C22_GifvAsMp4 ==
  \A r \in requests :
    LET orig == fetchers[r.cid[1]].links[r.cid[2]].link
        name == Last(Split(r.link, "/"))
    IN /\ HasSuffix(orig, <<"g", "i", "f", "v">>) =>
            /\ r.link = SubSeq(orig, 1, Len(orig) - 4) \o <<"m", "p", "4">>
            /\ HasSuffix(name, <<"m", "p", "4">>)
       /\ ~HasSuffix(orig, <<"g", "i", "f", "v">>) => r.link = orig
       /\ \E p \in files : Last(Split(p, "/")) = name

\* a gifv link and another link of one feed were both requested
C22_Witness ==
  \E r, q \in requests :
    /\ HasSuffix(fetchers[r.cid[1]].links[r.cid[2]].link,
                 <<"g", "i", "f", "v">>)
    /\ ~HasSuffix(fetchers[q.cid[1]].links[q.cid[2]].link,
                  <<"g", "i", "f", "v">>)

\* C23: the limit of the feed requests after the construction is 100 for a
\* requested limit above 100, 50 for one of 0 or less, the requested limit
\* otherwise, and so within 1..100
C23_EffectiveLimit ==
  [][startPc = "new" =>
       LET requested == scrapingOptions.ImageLimit
       IN /\ RequestLimit' =
               IF requested > 100 THEN 100
               ELSE IF requested <= 0 THEN 50
               ELSE requested
          /\ RequestLimit' \in 1..100]_vars

\* C24: no fetcher is about to look up its set in the map of sets, for its
\* insert, while another fetcher holds the mutex and is about to write the
\* map
C24_NoMapOverlap ==
  \A f, g \in FeedIds :
    f # g =>
      ~(/\ fetchers[f].pc = "insert"
        /\ fetchers[g].pc = "create"
        /\ ~uniqueImageIds[Sub(g)].present)

\* C25: no two workers are both past the existence check of the same path
\* and about to create it
C25_NoSharedDestination ==
  \A c, d \in Candidates :
    (c # d /\ workers[c].pc = "create" /\ workers[d].pc = "create") =>
      ImagePath(workers[c].image) # ImagePath(workers[d].image)

====
